---- MODULE Spec2Model ----
(***************************************************************************)
(* A model of pydust/config.py: the ExtModule and ToolPydust configuration *)
(* classes, the _validate_input_type guard, and load(), the lru_cache(1)   *)
(* wrapped reader of pyproject.toml.                                       *)
(*                                                                         *)
(* Python values are tagged records: [t |-> <type name>, ...].  Python     *)
(* dicts are TLA+ functions whose DOMAIN is the dict's key set, so that a  *)
(* missing key is visible (d[k] raises KeyError, d.get(k, x) defaults).    *)
(* Python str is a TLA+ string; split, rsplit, startswith and              *)
(* Path.with_suffix are computed character by character.                   *)
(***************************************************************************)
EXTENDS Integers, Sequences, FiniteSets, TLC

VARIABLES
    file,            \* content of ./pyproject.toml
    pydust_version,  \* importlib.metadata.version("ziggy-pydust")
    cache,           \* the lru_cache(1) slot of load(): 0 = empty, else an object id
    heap,            \* ToolPydust instances created so far; an object's id is its index
    pc,              \* per thread: position inside a call of load()
    pyproject,       \* per thread: the local variable pyproject of load()
    ret,             \* per thread: what the call returned or raised
    steps,           \* per thread: the statements of load() the current call has run
    reads,           \* number of times pyproject.toml was opened
    calls,           \* number of calls of load() started
    edits,           \* number of times pyproject.toml was rewritten
    clears,          \* number of calls of load.cache_clear()
    doneOrder,       \* threads whose call has completed and is not yet consumed, oldest first
    firstOk,         \* id returned by the first call of load() that completed successfully
    inp,             \* keyword arguments of a direct constructor call
    obj,             \* the object a direct constructor call produced
    out              \* result of the last direct constructor or property call

vars == <<file, pydust_version, cache, heap, pc, pyproject, ret, steps, reads,
          calls, edits, clears, doneOrder, firstOk, inp, obj, out>>

loaderVars == <<file, pydust_version, cache, heap, pc, pyproject, ret, steps,
                reads, calls, edits, clears, doneOrder, firstOk>>

(***************************************************************************)
(* Bounds of the model.                                                    *)
(***************************************************************************)
MaxNameLen == 3   \* longest generated module name
MaxCalls == 4     \* calls of load() per run
MaxEdits == 2     \* rewrites of pyproject.toml per run
MaxClears == 1    \* calls of load.cache_clear() per run

(***************************************************************************)
(* Python values.                                                          *)
(***************************************************************************)
None == [t |-> "NoneType"]
Str(s) == [t |-> "str", s |-> s]
Bool(b) == [t |-> "bool", b |-> b]
PathV(p) == [t |-> "Path", p |-> p]
List(items) == [t |-> "list", items |-> items]
Dict(d) == [t |-> "dict", d |-> d]
Absent == [t |-> "<absent>"]

Returned(v) == [kind |-> "return", val |-> v]
Raised(e) == [kind |-> "raise", exc |-> e]
NoResult == [kind |-> "none"]

TypeError(name, value, typ) ==
    [exc |-> "TypeError", name |-> name, value |-> value, typ |-> typ]
ValueError(msg) == [exc |-> "ValueError", msg |-> msg]
NotImplementedError(msg) == [exc |-> "NotImplementedError", msg |-> msg]
KeyError(key) == [exc |-> "KeyError", key |-> key]
FileNotFoundError == [exc |-> "FileNotFoundError"]
TOMLDecodeError == [exc |-> "TOMLDecodeError"]

(***************************************************************************)
(* str methods.                                                            *)
(***************************************************************************)
CharAt(s, i) == SubSeq(s, i, i)

\* str.find / str.rfind of a single character, 1-based, 0 when there is none
Find(s, c) ==
    LET I == {i \in 1..Len(s) : CharAt(s, i) = c}
    IN IF I = {} THEN 0 ELSE CHOOSE i \in I : \A j \in I : i <= j

RFind(s, c) ==
    LET I == {i \in 1..Len(s) : CharAt(s, i) = c}
    IN IF I = {} THEN 0 ELSE CHOOSE i \in I : \A j \in I : i >= j

StartsWith(s, prefix) ==
    /\ Len(prefix) <= Len(s)
    /\ SubSeq(s, 1, Len(prefix)) = prefix

\* s.split(c): every piece between separators, empty pieces kept
RECURSIVE Split(_, _)
Split(s, c) ==
    LET i == Find(s, c)
    IN IF i = 0 THEN <<s>>
       ELSE <<SubSeq(s, 1, i - 1)>> \o Split(SubSeq(s, i + 1, Len(s)), c)

\* s.rsplit(c, maxsplit=1)[-1]
RSplitLast(s, c) == SubSeq(s, RFind(s, c) + 1, Len(s))

(***************************************************************************)
(* pathlib.  A relative path is held as its string form.                   *)
(***************************************************************************)
RECURSIVE JoinParts(_)
JoinParts(parts) ==
    IF parts = <<>> THEN ""
    ELSE IF Len(parts) = 1 THEN parts[1]
    ELSE parts[1] \o "/" \o JoinParts(Tail(parts))

\* Path(*parts): empty segments vanish, and the empty path is "."
PathOfParts(parts) ==
    LET kept == SelectSeq(parts, LAMBDA x : x # "")
    IN IF kept = <<>> THEN "." ELSE JoinParts(kept)

\* Path.name
PathName(p) == IF p = "." THEN "" ELSE SubSeq(p, RFind(p, "/") + 1, Len(p))

\* Path.suffix: from the last dot of the name, unless that dot is first or last
PathSuffix(p) ==
    LET name == PathName(p)
        i == RFind(name, ".")
    IN IF 1 < i /\ i < Len(name) THEN SubSeq(name, i, Len(name)) ELSE ""

\* Path.with_suffix(suffix) for a suffix that starts with a dot
WithSuffix(p, suffix) ==
    IF PathName(p) = "" THEN Raised(ValueError("has an empty name"))
    ELSE Returned(PathV(SubSeq(p, 1, Len(p) - Len(PathSuffix(p))) \o suffix))

\* Path / segment
PathJoin(p, seg) == IF seg = "" THEN p ELSE p \o "/" \o seg

(***************************************************************************)
(* _validate_input_type(name, inp, typ): typ is the set of accepted types. *)
(***************************************************************************)
IsInstance(value, typ) == value.t \in typ

validate_input_type(name, value, typ) ==
    IF IsInstance(value, typ) THEN Returned(value)
    ELSE Raised(TypeError(name, value, typ))

\* keyword argument k of a call, or its default
Arg(kw, k, default) == IF k \in DOMAIN kw THEN kw[k] ELSE default

(***************************************************************************)
(* class ExtModule                                                         *)
(***************************************************************************)
ExtModuleParams == {"name", "root", "limited_api"}

ExtModule_init(kw) ==
    IF ~(DOMAIN kw \subseteq ExtModuleParams) THEN
        Raised(TypeError("<unexpected keyword>", Absent, ExtModuleParams))
    ELSE IF ~({"name", "root"} \subseteq DOMAIN kw) THEN
        Raised(TypeError("<missing keyword>", Absent, {"name", "root"}))
    ELSE
        LET name == validate_input_type("name", kw.name, {"str"})
            root == validate_input_type("root", kw.root, {"Path"})
            limited_api == validate_input_type(
                "limited_api", Arg(kw, "limited_api", Bool(TRUE)), {"bool"})
        IN IF name.kind = "raise" THEN name
           ELSE IF root.kind = "raise" THEN root
           ELSE IF limited_api.kind = "raise" THEN limited_api
           ELSE Returned([t |-> "ExtModule", name |-> name.val, root |-> root.val,
                          limited_api |-> limited_api.val])

libname(self) == Returned(Str(RSplitLast(self.name.s, ".")))

\* mutant: a module outside the limited API gets the plain ".so" path
install_path_defaulted(self) ==
    WithSuffix(PathOfParts(Split(self.name.s, ".")),
               IF self.limited_api.b THEN ".abi3.so" ELSE ".so")

install_path(self) ==
    IF ~self.limited_api.b THEN
        Raised(NotImplementedError("Only limited API modules are supported right now"))
    ELSE WithSuffix(PathOfParts(Split(self.name.s, ".")), ".abi3.so")

test_bin(self) ==
    WithSuffix(PathJoin(PathJoin("zig-out", "bin"), libname(self).val.s), ".test.bin")

(***************************************************************************)
(* class ToolPydust                                                        *)
(***************************************************************************)
ToolPydustParams == {"zig_exe", "build_zig", "zig_tests", "self_managed", "ext_module"}

SelfManagedMsg == "ext_modules cannot be defined when using Pydust in self-managed mode."

\* mutant: the list counts as set as soon as it is not None
TruthyNotNone(list) == list # None

\* truth value of a list: it is non-empty
Truthy(list) == list.items # <<>>

\* mutant: the final validation is left out
FinalValidationOff(self) == Returned(self)

\* the final validation of ToolPydust.__init__
FinalValidation(self) ==
    IF self.self_managed.b /\ Truthy(self.ext_modules)
    THEN Raised(ValueError(SelfManagedMsg))
    ELSE Returned(self)

\* the ext_module argument renamed to ext_modules
ExtModulesOf(ext_module) ==
    IF ext_module = None THEN Returned(List(<<>>))
    ELSE validate_input_type("ext_module", ext_module, {"list"})

ToolPydust_init(kw) ==
    IF ~(DOMAIN kw \subseteq ToolPydustParams) THEN
        Raised(TypeError("<unexpected keyword>", Absent, ToolPydustParams))
    ELSE
        LET zig_exe == validate_input_type(
                "zig_exe", Arg(kw, "zig_exe", None), {"Path", "NoneType"})
            build_zig == validate_input_type(
                "build_zig", Arg(kw, "build_zig", PathV("build.zig")), {"Path"})
            zig_tests == validate_input_type(
                "zig_tests", Arg(kw, "zig_tests", Bool(TRUE)), {"bool"})
            self_managed == validate_input_type(
                "self_managed", Arg(kw, "self_managed", Bool(FALSE)), {"bool"})
            ext_modules == ExtModulesOf(Arg(kw, "ext_module", None))
        IN IF zig_exe.kind = "raise" THEN zig_exe
           ELSE IF build_zig.kind = "raise" THEN build_zig
           ELSE IF zig_tests.kind = "raise" THEN zig_tests
           ELSE IF self_managed.kind = "raise" THEN self_managed
           ELSE IF ext_modules.kind = "raise" THEN ext_modules
           ELSE FinalValidation(
                    [t |-> "ToolPydust", zig_exe |-> zig_exe.val,
                     build_zig |-> build_zig.val, zig_tests |-> zig_tests.val,
                     self_managed |-> self_managed.val,
                     ext_modules |-> ext_modules.val])

(***************************************************************************)
(* load(): the body, statement by statement.                               *)
(***************************************************************************)
ToolName == "ziggy-pydust"
DevVersion == "0.1.0"

Expected(version) == ToolName \o "==" \o version

PinMsg(expected) ==
    "Detected misconfigured ziggy-pydust. " \o "You must include \"" \o expected
        \o "\" in build-system.requires in pyproject.toml"

\* mutant: a requirement that merely begins with the expected pin is accepted
ReqMismatchPrefix(req, expected) ==
    StartsWith(req, ToolName) /\ ~StartsWith(req, expected)

\* does this requirement trip the check
ReqMismatch(req, expected) == StartsWith(req, ToolName) /\ req # expected

\* the for loop over build-system.requires
RECURSIVE CheckRequires(_, _)
CheckRequires(requires, expected) ==
    IF requires = <<>> THEN NoResult
    ELSE IF ReqMismatch(Head(requires), expected) THEN Raised(ValueError(PinMsg(expected)))
    ELSE CheckRequires(Tail(requires), expected)

\* is the version check skipped
SkipCheck(version) == version = DevVersion

\* lines 103-116: NoResult when the check lets the call go on
CheckVersion(version, doc) ==
    IF SkipCheck(version) THEN NoResult
    ELSE IF "build-system" \notin DOMAIN doc THEN Raised(KeyError("build-system"))
    ELSE IF "requires" \notin DOMAIN doc["build-system"] THEN Raised(KeyError("requires"))
    ELSE CheckRequires(doc["build-system"].requires, Expected(version))

\* dict.get(k, default)
DictGet(d, k, default) == IF k \in DOMAIN d THEN d[k] ELSE default

\* line 118: the keyword arguments handed to ToolPydust, or the KeyError
PydustTable(doc) ==
    IF "tool" \notin DOMAIN doc THEN Raised(KeyError("tool"))
    ELSE Returned(DictGet(doc.tool, "pydust", <<>>))

\* line 98-99: open and parse
ReadManifest(f) ==
    IF f.state = "missing" THEN Raised(FileNotFoundError)
    ELSE IF f.state = "malformed" THEN Raised(TOMLDecodeError)
    ELSE Returned(f.doc)

(***************************************************************************)
(* functools.lru_cache(1) around a function of no arguments.               *)
(***************************************************************************)
\* mutant: the lookup never finds the key, as if load() were not cached
LruHitNever(c) == FALSE

\* a call finds the key in the cache
LruHit(c) == c # 0

\* mutant: the wrapper overwrites a value stored meanwhile
LruStoreLast(c, id) == id

\* after the wrapped function returned id: the slot keeps a value stored meanwhile
LruStore(c, id) == IF c # 0 THEN c ELSE id

\* mutant: a failure poisons the empty slot
LruAfterRaisePoison(c) == IF c = 0 THEN -1 ELSE c

\* after the wrapped function raised: nothing is stored
LruAfterRaise(c) == c

\* load.cache_clear(): the slot is emptied
LruClear(c) == 0

(***************************************************************************)
(* Inputs.                                                                 *)
(***************************************************************************)
Threads == {1, 2}

\* a dict from the keys whose value is not Absent
MakeKw(vals) == [k \in {k \in DOMAIN vals : vals[k] # Absent} |-> vals[k]]

NameAlphabet == {"a", "b", "."}

RECURSIVE StringsUpTo(_)
StringsUpTo(n) ==
    IF n = 0 THEN {""}
    ELSE LET S == StringsUpTo(n - 1) IN S \cup {s \o c : s \in S, c \in NameAlphabet}

Names == StringsUpTo(MaxNameLen) \cup {"pkg.fastmod"}

ExtModuleKwargs ==
    {MakeKw([name |-> n, root |-> r, limited_api |-> l]) :
        n \in {Str(s) : s \in Names} \cup {Absent, None, Bool(TRUE)},
        r \in {PathV("src/fastmod"), PathV("."), Str("src/fastmod"), None},
        l \in {Absent, Bool(TRUE), Bool(FALSE), Str("true")}}

\* a [[tool.pydust.ext_module]] table as tomllib returns it
ModuleTable(name, root) == Dict([name |-> Str(name), root |-> Str(root)])

Mod1 == ModuleTable("pkg.fastmod", "src/fastmod")
Mod2 == ModuleTable("pkg.sub.other", "src/other")

\* an ExtModule instance
Ext1 == ExtModule_init([name |-> Str("pkg.fastmod"), root |-> PathV("src/fastmod")]).val

\* keyword arguments of a direct call of ToolPydust
ToolPydustKwargs ==
    {MakeKw([zig_exe |-> z, build_zig |-> b, zig_tests |-> zt,
             self_managed |-> sm, ext_module |-> em]) :
        z \in {Absent, None, PathV("/usr/bin/zig"), Str("zig")},
        b \in {Absent, PathV("zig/build.zig"), Str("build.zig")},
        zt \in {Absent, Bool(FALSE), Str("no")},
        sm \in {Absent, Bool(TRUE), Bool(FALSE), Str("yes")},
        em \in {Absent, None, List(<<>>), List(<<Ext1>>), List(<<Mod1>>),
                 List(<<Mod1, Mod2>>), Mod1}}

NoCall == [call |-> "none"]

NoObj == [t |-> "<none>"]
NoOut == [op |-> "none"]

\* pyproject.toml
MissingFile == [state |-> "missing"]
MalformedFile == [state |-> "malformed"]
TomlFile(doc) == [state |-> "ok", doc |-> doc]

\* the parsed document: requires and tool are each there or not
TomlDoc(requires, tool) ==
    (IF requires.has THEN ("build-system" :> [requires |-> requires.list]) ELSE <<>>)
    @@ (IF tool.has THEN [tool |-> tool.table] ELSE <<>>)

HasList(x) == [has |-> TRUE, list |-> x]
HasTable(x) == [has |-> TRUE, table |-> x]
HasNot == [has |-> FALSE]

Versions == {DevVersion, "1.2.3", "1.0.0"}

RequirementStrings ==
    {"poetry-core", "ziggy-pydust==1.2.3", "ziggy-pydust==1.0.0", "ziggy-pydust==1.2.30",
     "ziggy-pydust", "ziggy-pydust-extras==1.2.3"}

MaxRequires == 2  \* longest generated build-system.requires

RECURSIVE RequiresUpTo(_)
RequiresUpTo(n) ==
    IF n = 0 THEN {<<>>}
    ELSE LET S == RequiresUpTo(n - 1)
         IN S \cup {Append(r, q) : r \in S, q \in RequirementStrings}

\* [tool.pydust] tables a TOML file can hold
TomlTables ==
    {MakeKw([zig_tests |-> zt, self_managed |-> sm, ext_module |-> em]) :
        zt \in {Absent, Str("no")},
        sm \in {Absent, Bool(TRUE), Bool(FALSE)},
        em \in {Absent, List(<<>>), List(<<Mod1>>), List(<<Mod1, Mod2>>)}}
    \cup {[build_zig |-> Str("build.zig")], [zig_exe |-> Str("zig")],
          [self_managed |-> Str("yes")], [ext_module |-> Mod1],
          [unknown_key |-> Bool(TRUE)]}

ToolOptions ==
    {HasNot, HasTable([poetry |-> <<>>])} \cup {HasTable([pydust |-> k]) : k \in TomlTables}

AllFiles ==
    {MissingFile, MalformedFile}
    \cup {TomlFile(TomlDoc(r, tl)) :
            r \in {HasNot} \cup {HasList(q) : q \in RequiresUpTo(MaxRequires)},
            tl \in ToolOptions}

\* the files of the concurrent runs
GoodFile == TomlFile(TomlDoc(HasList(<<"poetry-core", "ziggy-pydust==1.2.3">>),
                             HasTable([pydust |-> <<>>])))
OldPinFile == TomlFile(TomlDoc(HasList(<<"ziggy-pydust==1.0.0">>),
                               HasTable([pydust |-> [ext_module |-> List(<<Mod1>>)]])))
BadTableFile == TomlFile(TomlDoc(HasList(<<"ziggy-pydust==1.2.3">>),
                                 HasTable([pydust |-> [self_managed |-> Bool(TRUE),
                                                  ext_module |-> List(<<Mod1>>)]])))
SmallFiles == {MissingFile, MalformedFile, GoodFile, OldPinFile, BadTableFile}

(***************************************************************************)
(* Initial states.                                                         *)
(***************************************************************************)
InitLoader(f, v) ==
    /\ file = f
    /\ pydust_version = v
    /\ cache = 0
    /\ heap = <<>>
    /\ pc = [t \in Threads |-> "idle"]
    /\ pyproject = [t \in Threads |-> <<>>]
    /\ ret = [t \in Threads |-> NoResult]
    /\ steps = [t \in Threads |-> <<>>]
    /\ reads = 0
    /\ calls = 0
    /\ edits = 0
    /\ clears = 0
    /\ doneOrder = <<>>
    /\ firstOk = 0

InitDirect(i) ==
    /\ inp = i
    /\ obj = NoObj
    /\ out = NoOut

\* two threads share the process; the file is one of a few
Init ==
    /\ \E f \in SmallFiles, v \in {DevVersion, "1.2.3"} : InitLoader(f, v)
    /\ InitDirect(NoCall)

\* one thread; either load() on some file or a direct call of ToolPydust
InitLoad ==
    \/ /\ \E f \in AllFiles, v \in Versions : InitLoader(f, v)
       /\ InitDirect(NoCall)
    \/ /\ InitLoader(MissingFile, DevVersion)
       /\ \E k \in ToolPydustKwargs : InitDirect([call |-> "ToolPydust", kw |-> k])

\* a direct call of ExtModule and of its properties
InitModule ==
    /\ InitLoader(MissingFile, DevVersion)
    /\ \E k \in ExtModuleKwargs : InitDirect([call |-> "ExtModule", kw |-> k])

(***************************************************************************)
(* load() through its lru_cache wrapper, one thread's step at a time.      *)
(***************************************************************************)
\* the call of thread t ends with result r
Finish(t, r) ==
    /\ pc' = [pc EXCEPT ![t] = "done"]
    /\ ret' = [ret EXCEPT ![t] = r]
    /\ doneOrder' = Append(doneOrder, t)
    /\ firstOk' = IF firstOk = 0 /\ r.kind = "return" THEN r.val ELSE firstOk

Ran(t, step) == steps' = [steps EXCEPT ![t] = Append(@, step)]

\* load() is called: the wrapper looks the key up
Call(t, limit) ==
    /\ pc[t] = "idle"
    /\ calls < limit
    /\ calls' = calls + 1
    /\ IF LruHit(cache)
       THEN Finish(t, Returned(cache))
       ELSE /\ pc' = [pc EXCEPT ![t] = "read"]
            /\ UNCHANGED <<ret, doneOrder, firstOk>>
    /\ UNCHANGED <<clears, file, pydust_version, cache, heap, pyproject, steps, reads, edits,
                   inp, obj, out>>

\* lines 98-99
Read(t) ==
    /\ pc[t] = "read"
    /\ reads' = reads + 1
    /\ Ran(t, "read")
    /\ LET r == ReadManifest(file)
       IN IF r.kind = "raise"
          THEN /\ Finish(t, r)
               /\ cache' = LruAfterRaise(cache)
               /\ UNCHANGED pyproject
          ELSE /\ pyproject' = [pyproject EXCEPT ![t] = r.val]
               /\ pc' = [pc EXCEPT ![t] = "version"]
               /\ UNCHANGED <<ret, doneOrder, firstOk, cache>>
    /\ UNCHANGED <<clears, file, pydust_version, heap, calls, edits, inp, obj, out>>

\* lines 103-116
Version(t) ==
    /\ pc[t] = "version"
    /\ Ran(t, "version")
    /\ LET r == CheckVersion(pydust_version, pyproject[t])
       IN IF r.kind = "raise"
          THEN /\ Finish(t, r)
               /\ cache' = LruAfterRaise(cache)
          ELSE /\ pc' = [pc EXCEPT ![t] = "construct"]
               /\ UNCHANGED <<ret, doneOrder, firstOk, cache>>
    /\ UNCHANGED <<clears, file, pydust_version, heap, pyproject, reads, calls, edits,
                   inp, obj, out>>

\* line 118: the function returns the new ToolPydust to the wrapper
Construct(t) ==
    /\ pc[t] = "construct"
    /\ Ran(t, "construct")
    /\ LET table == PydustTable(pyproject[t])
           r == IF table.kind = "raise" THEN table ELSE ToolPydust_init(table.val)
       IN IF r.kind = "raise"
          THEN /\ Finish(t, r)
               /\ cache' = LruAfterRaise(cache)
               /\ UNCHANGED heap
          ELSE /\ heap' = Append(heap, r.val)
               /\ ret' = [ret EXCEPT ![t] = Returned(Len(heap) + 1)]
               /\ pc' = [pc EXCEPT ![t] = "store"]
               /\ UNCHANGED <<doneOrder, firstOk, cache>>
    /\ UNCHANGED <<clears, file, pydust_version, pyproject, reads, calls, edits, inp, obj, out>>

\* the wrapper stores the result and returns it
Store(t) ==
    /\ pc[t] = "store"
    /\ Ran(t, "store")
    /\ cache' = LruStore(cache, ret[t].val)
    /\ Finish(t, ret[t])
    /\ UNCHANGED <<clears, file, pydust_version, heap, pyproject, reads, calls, edits,
                   inp, obj, out>>

\* the caller takes the result; the thread may call again
Return(t) ==
    /\ pc[t] = "done"
    /\ pc' = [pc EXCEPT ![t] = "idle"]
    /\ ret' = [ret EXCEPT ![t] = NoResult]
    /\ steps' = [steps EXCEPT ![t] = <<>>]
    /\ pyproject' = [pyproject EXCEPT ![t] = <<>>]
    /\ doneOrder' = SelectSeq(doneOrder, LAMBDA u : u # t)
    /\ UNCHANGED <<clears, file, pydust_version, cache, heap, reads, calls, edits, firstOk,
                   inp, obj, out>>

\* somebody rewrites, removes or restores pyproject.toml
Edit ==
    /\ edits < MaxEdits
    /\ edits' = edits + 1
    /\ \E f \in SmallFiles \ {file} : file' = f
    /\ UNCHANGED <<pydust_version, cache, heap, pc, pyproject, ret, steps, reads, calls,
                   clears, doneOrder, firstOk, inp, obj, out>>

\* somebody calls load.cache_clear(), the attribute lru_cache gives load
CacheClear ==
    /\ clears < MaxClears
    /\ clears' = clears + 1
    /\ cache' = LruClear(cache)
    /\ UNCHANGED <<file, pydust_version, heap, pc, pyproject, ret, steps, reads, calls,
                   edits, doneOrder, firstOk, inp, obj, out>>

(***************************************************************************)
(* Direct calls.                                                           *)
(***************************************************************************)
NewToolPydust ==
    /\ inp.call = "ToolPydust"
    /\ out = NoOut
    /\ LET r == ToolPydust_init(inp.kw)
       IN IF r.kind = "raise"
          THEN /\ out' = [op |-> "ToolPydust", res |-> r]
               /\ UNCHANGED heap
          ELSE /\ heap' = Append(heap, r.val)
               /\ out' = [op |-> "ToolPydust", res |-> Returned(Len(heap) + 1)]
    /\ UNCHANGED <<clears, file, pydust_version, cache, pc, pyproject, ret, steps, reads, calls,
                   edits, doneOrder, firstOk, inp, obj>>

NewExtModule ==
    /\ inp.call = "ExtModule"
    /\ out = NoOut
    /\ LET r == ExtModule_init(inp.kw)
       IN /\ out' = [op |-> "ExtModule", res |-> r]
          /\ obj' = IF r.kind = "return" THEN r.val ELSE NoObj
    /\ UNCHANGED <<loaderVars, inp>>

\* the properties of the ExtModule are read
Libname ==
    /\ obj # NoObj
    /\ out' = [op |-> "libname", res |-> libname(obj)]
    /\ UNCHANGED <<loaderVars, inp, obj>>

InstallPath ==
    /\ obj # NoObj
    /\ out' = [op |-> "install_path", res |-> install_path(obj)]
    /\ UNCHANGED <<loaderVars, inp, obj>>

TestBin ==
    /\ obj # NoObj
    /\ out' = [op |-> "test_bin", res |-> test_bin(obj)]
    /\ UNCHANGED <<loaderVars, inp, obj>>

(***************************************************************************)
(* Specifications.                                                         *)
(***************************************************************************)
SingleCall == 1   \* calls of load() in the one-thread runs

Next ==
    \/ \E t \in Threads : Call(t, MaxCalls)
    \/ \E t \in Threads : Read(t)
    \/ \E t \in Threads : Version(t)
    \/ \E t \in Threads : Construct(t)
    \/ \E t \in Threads : Store(t)
    \/ \E t \in Threads : Return(t)
    \/ Edit
    \/ CacheClear

Spec == Init /\ [][Next]_vars

NextLoad ==
    \/ Call(1, SingleCall)
    \/ Read(1)
    \/ Version(1)
    \/ Construct(1)
    \/ Store(1)
    \/ Return(1)
    \/ CacheClear
    \/ NewToolPydust

SpecLoad == InitLoad /\ [][NextLoad]_vars

NextModule ==
    \/ NewExtModule
    \/ Libname
    \/ InstallPath
    \/ TestBin

SpecModule == InitModule /\ [][NextModule]_vars

(***************************************************************************)
(* Properties of the cache under two threads (Spec).                       *)
(***************************************************************************)
AllSteps == <<"read", "version", "construct", "store">>

\* thread t starts a call of load() in this step
Calls(t) == pc[t] = "idle" /\ pc'[t] # "idle"

\* the call of thread t ends in this step
Ends(t) == pc[t] # "done" /\ pc'[t] = "done"

\* the completed call of thread t missed the cache and ran the body to the end
MissedAndReturned(t) ==
    pc[t] = "done" /\ ret[t].kind = "return" /\ steps[t] = AllSteps

\* the completed call of thread t was answered from the cache
HitAndReturned(t) == pc[t] = "done" /\ steps[t] = <<>>

\* a call started on a loaded cache is answered with the cached instance, at
\* once, without opening pyproject.toml and without constructing anything
AnsweredFromCache(t) ==
    Calls(t) => /\ pc'[t] = "done"
                /\ ret'[t] = Returned(cache)
                /\ steps'[t] = <<>>
                /\ reads' = reads
                /\ heap' = heap

\* a step of load() or a rewrite of pyproject.toml: any step of the process
\* other than a call of load.cache_clear()
LoadOrEditStep == clears' = clears

\* C1: the first call of load() that succeeds leaves its instance in the cache;
\* from then on no step of load(), in either thread, and no rewrite of
\* pyproject.toml changes the cache or takes it back to Empty; and every call
\* of load() started on the Loaded cache returns the cached instance at once,
\* without a read of the manifest and without a construction (so without a
\* validation), whatever pyproject.toml holds by then.  Hence every call made
\* after the first success returns the instance of that first success.
C1_LoadedIsTerminal ==
    /\ [][(firstOk = 0 /\ firstOk' # 0) => cache' = firstOk']_vars
    /\ [][(cache # 0 /\ LoadOrEditStep) =>
              /\ cache' = cache
              /\ \A t \in Threads : AnsweredFromCache(t)]_vars
    /\ [][(firstOk # 0 /\ cache = firstOk /\ LoadOrEditStep) =>
              /\ cache' = firstOk
              /\ \A t \in Threads : Calls(t) => ret'[t] = Returned(firstOk)]_vars

\* a call answered from the cache with the instance of the first success,
\* although the file was removed after the one read of it
C1_Witness ==
    \E t \in Threads :
        /\ HitAndReturned(t)
        /\ ret[t] = Returned(firstOk)
        /\ firstOk # 0
        /\ cache = firstOk
        /\ reads = 1
        /\ edits > 0
        /\ file = MissingFile

\* C2: a call of load() that fails leaves the cache as it was (Empty stays
\* Empty), a call on the Empty cache runs the body again from the read of the
\* manifest, and its outcome is that of the manifest it read: it returns a
\* ToolPydust when the file it reads is the good one.
C2_FailureIsNotCached ==
    /\ [][\A t \in Threads :
            /\ (Ends(t) /\ ret'[t].kind = "raise") => cache' = cache
            /\ (Calls(t) /\ cache = 0) => pc'[t] = "read"
            /\ (pc[t] = "read" /\ pc'[t] # "read" /\ file = GoodFile) =>
                  (pc'[t] = "version" /\ pyproject'[t] = GoodFile.doc)]_vars
    /\ [](\A t \in Threads :
            (pc[t] = "done" /\ steps[t] # <<>> /\ pyproject[t] = GoodFile.doc)
                => (ret[t].kind = "return" /\ steps[t] = AllSteps))

\* two calls were made and both read the file; the first one failed (it is over
\* and created no object), the file was fixed, and the second one returned
C2_Witness ==
    \E t \in Threads :
        /\ MissedAndReturned(t)
        /\ \A u \in Threads \ {t} : pc[u] = "idle"
        /\ calls = 2
        /\ reads = 2
        /\ Len(heap) = 1
        /\ edits = 1
        /\ clears = 0
        /\ file = GoodFile
        /\ cache = ret[t].val

\* both threads raced on the Empty cache, which load.cache_clear() never
\* emptied, and both came back with an instance
BothRaced == clears = 0 /\ \A t \in Threads : MissedAndReturned(t)

\* C7 as stated: after a race the cache holds the result of the thread that
\* completed last.
C7_LastWriterWins ==
    BothRaced => cache = ret[doneOrder[Len(doneOrder)]].val

\* C7, amended: after a race on the Empty cache both threads have read the
\* manifest and constructed an instance of their own, the cache holds exactly
\* one of the two, the result of the thread that completed first, and a call
\* answered from the cache returns the cached instance (load.cache_clear() not
\* having been called).
C7_FirstWriterWins ==
    /\ BothRaced =>
          /\ reads >= 2
          /\ ret[1].val # ret[2].val
          /\ cache = ret[doneOrder[1]].val
          /\ cache # ret[doneOrder[Len(doneOrder)]].val
    /\ \A t \in Threads : (clears = 0 /\ HitAndReturned(t)) => ret[t] = Returned(cache)

\* the two racing threads read different contents of the file
C7_Witness ==
    /\ BothRaced
    /\ pyproject[1] # pyproject[2]
    /\ heap[ret[1].val] # heap[ret[2].val]

(***************************************************************************)
(* Properties of one call of load() and of ToolPydust (SpecLoad).          *)
(***************************************************************************)
\* sub occurs in s
Contains(s, sub) ==
    \E i \in 1..(Len(s) - Len(sub) + 1) : SubSeq(s, i, i + Len(sub) - 1) = sub

IsPrefix(s, u) == Len(s) <= Len(u) /\ s = SubSeq(u, 1, Len(s))

\* the pin the running version asks for
Pin == "ziggy-pydust==" \o pydust_version

HasRequires(doc) ==
    "build-system" \in DOMAIN doc /\ "requires" \in DOMAIN doc["build-system"]

\* an entry of build-system.requires names the tool and is not the pin
SomeEntryOffPin(doc) ==
    \E i \in 1..Len(doc["build-system"].requires) :
        LET req == doc["build-system"].requires[i]
        IN StartsWith(req, "ziggy-pydust") /\ req # Pin

\* the completed call of thread 1 got as far as the version check
CheckedVersion == pc[1] = "done" /\ Len(steps[1]) >= 2

\* the completed call failed on the pin
FailedOnPin ==
    /\ ret[1].kind = "raise"
    /\ ret[1].exc.exc = "ValueError"
    /\ Contains(ret[1].exc.msg, "\"" \o Pin \o "\"")
    /\ Contains(ret[1].exc.msg, "build-system.requires")
    /\ steps[1] = <<"read", "version">>

\* C3: load() on an Empty cache.  When the running version is not "0.1.0" and an
\* entry of build-system.requires names the tool (begins with "ziggy-pydust")
\* without being exactly "ziggy-pydust==<version>", the call fails with a
\* ValueError whose message names that pin; when every such entry is exactly the
\* pin, or there is none, the call goes on to the construction; when the running
\* version is "0.1.0" the call goes on to the construction whatever the manifest
\* holds, build-system table or not.
C3_VersionCheck ==
    CheckedVersion =>
        LET doc == pyproject[1]
        IN /\ (pydust_version # "0.1.0" /\ HasRequires(doc) /\ SomeEntryOffPin(doc))
                => FailedOnPin
           /\ (pydust_version # "0.1.0" /\ HasRequires(doc) /\ ~SomeEntryOffPin(doc))
                => Len(steps[1]) >= 3
           /\ pydust_version = "0.1.0" => Len(steps[1]) >= 3

\* version 1.2.3 against a manifest pinned to 1.0.0
C3_Witness ==
    /\ CheckedVersion
    /\ pydust_version = "1.2.3"
    /\ HasRequires(pyproject[1])
    /\ pyproject[1]["build-system"].requires = <<"ziggy-pydust==1.0.0">>
    /\ FailedOnPin

\* every call of ToolPydust seen in this state, with its keyword arguments and its
\* result: the direct one, and the one load() made
ConstructorCalls ==
    (IF out.op = "ToolPydust" THEN {[kw |-> inp.kw, res |-> out.res]} ELSE {})
    \cup (IF /\ pc[1] \in {"store", "done"}
             /\ Len(steps[1]) >= 3
             /\ "tool" \in DOMAIN pyproject[1]
          THEN {[kw |-> DictGet(pyproject[1].tool, "pydust", <<>>), res |-> ret[1]]}
          ELSE {})

SelfManagedOn(kw) == "self_managed" \in DOMAIN kw /\ kw.self_managed = Bool(TRUE)

ModulesDeclared(kw) ==
    /\ "ext_module" \in DOMAIN kw
    /\ kw.ext_module.t = "list"
    /\ kw.ext_module.items # <<>>

NoModules(kw) ==
    "ext_module" \in DOMAIN kw => kw.ext_module \in {None, List(<<>>)}

OthersWellTyped(kw) ==
    /\ DOMAIN kw \subseteq {"zig_exe", "build_zig", "zig_tests", "self_managed", "ext_module"}
    /\ "zig_exe" \in DOMAIN kw => kw.zig_exe.t \in {"Path", "NoneType"}
    /\ "build_zig" \in DOMAIN kw => kw.build_zig.t = "Path"
    /\ "zig_tests" \in DOMAIN kw => kw.zig_tests.t = "bool"

FailsWith(res, exc) == res.kind = "raise" /\ res.exc.exc = exc

\* no ToolPydust that exists, the cached one included, is self-managed with modules
NoSelfManagedWithModules ==
    /\ cache # 0 => cache \in 1..Len(heap)
    /\ \A i \in 1..Len(heap) :
          ~(heap[i].self_managed.b /\ heap[i].ext_modules.items # <<>>)

\* C4 as stated: self_managed=True with a non-empty module list always fails with
\* the ValueError of the final validation.
C4_AlwaysInvalidConfiguration ==
    /\ \A c \in ConstructorCalls :
          /\ (SelfManagedOn(c.kw) /\ ModulesDeclared(c.kw))
                => (FailsWith(c.res, "ValueError") /\ c.res.exc.msg = SelfManagedMsg)
          /\ (SelfManagedOn(c.kw) /\ NoModules(c.kw) /\ OthersWellTyped(c.kw))
                => c.res.kind = "return"
    /\ NoSelfManagedWithModules

\* C4, amended: self_managed=True with a non-empty module list always fails, with
\* the ValueError of the final validation when the other fields are well-typed
\* and with a TypeError when one of them is not; self_managed=True with an empty
\* or absent module list and well-typed other fields succeeds; no ToolPydust that
\* exists, the cached one included, is self-managed with modules.
C4_SelfManagedExcludesModules ==
    /\ \A c \in ConstructorCalls :
          /\ (SelfManagedOn(c.kw) /\ ModulesDeclared(c.kw)) =>
                IF OthersWellTyped(c.kw)
                THEN FailsWith(c.res, "ValueError") /\ c.res.exc.msg = SelfManagedMsg
                ELSE FailsWith(c.res, "TypeError")
          /\ (SelfManagedOn(c.kw) /\ NoModules(c.kw) /\ OthersWellTyped(c.kw))
                => (c.res.kind = "return" /\ heap[c.res.val].self_managed = Bool(TRUE)
                    /\ heap[c.res.val].ext_modules = List(<<>>))
    /\ NoSelfManagedWithModules

\* a direct call with self_managed=True, a module and nothing else is refused
C4_Witness ==
    /\ out.op = "ToolPydust"
    /\ inp.kw = [self_managed |-> Bool(TRUE), ext_module |-> List(<<Ext1>>)]
    /\ FailsWith(out.res, "ValueError")

\* the instance the completed call of thread 1 returned
Loaded == heap[ret[1].val]

\* the call of thread 1 ran the body and returned
LoadReturned == pc[1] = "done" /\ steps[1] = AllSteps /\ ret[1].kind = "return"

HasPydustTable(doc) == "tool" \in DOMAIN doc /\ "pydust" \in DOMAIN doc.tool

\* what ExtModule makes of a table of the manifest, its root taken as a path
ModuleOfTable(table) ==
    ExtModule_init([name |-> table.d.name, root |-> PathV(table.d.root.s)])

\* C5: when the manifest's tool.pydust.ext_module is an array of n tables and the
\* call returns, the returned ToolPydust holds n ExtModule instances in the order
\* of the manifest, the i-th made from the i-th table, whose libname and
\* install_path can be read.
C5_ModulesAreExtModules ==
    (LoadReturned /\ HasPydustTable(pyproject[1])
        /\ "ext_module" \in DOMAIN pyproject[1].tool.pydust) =>
        LET tables == pyproject[1].tool.pydust.ext_module.items
            modules == Loaded.ext_modules.items
        IN /\ Len(modules) = Len(tables)
           /\ \A i \in 1..Len(tables) :
                /\ modules[i].t = "ExtModule"
                /\ modules[i] = ModuleOfTable(tables[i]).val
                /\ libname(modules[i]) = Returned(Str(RSplitLast(tables[i].d.name.s, ".")))
                /\ install_path(modules[i]).kind = "return"

DefaultConfig ==
    [t |-> "ToolPydust", zig_exe |-> None, build_zig |-> PathV("build.zig"),
     zig_tests |-> Bool(TRUE), self_managed |-> Bool(FALSE), ext_modules |-> List(<<>>)]

\* the version check lets this document through
PassesOrSkipsCheck(doc) ==
    \/ pydust_version = "0.1.0"
    \/ HasRequires(doc) /\ ~SomeEntryOffPin(doc)

\* C6: when the manifest was parsed, passes or skips the version check and has no
\* tool.pydust table, the call returns a ToolPydust with every default, and that
\* instance is the cached one.
C6_NoTableMeansDefaults ==
    (CheckedVersion /\ PassesOrSkipsCheck(pyproject[1]) /\ ~HasPydustTable(pyproject[1])) =>
        /\ ret[1].kind = "return"
        /\ Loaded = DefaultConfig
        /\ clears = 0 => cache = ret[1].val

\* every field of a ToolPydust has passed its validation
Validated(self) ==
    /\ self.zig_exe.t \in {"Path", "NoneType"}
    /\ self.build_zig.t = "Path"
    /\ self.zig_tests.t = "bool"
    /\ self.self_managed.t = "bool"
    /\ self.ext_modules.t = "list"
    /\ ~(self.self_managed.b /\ self.ext_modules.items # <<>>)

\* the construction of a ToolPydust from this document would fail
ConstructionWouldFail(doc) ==
    \/ "tool" \notin DOMAIN doc
    \/ ToolPydust_init(DictGet(doc.tool, "pydust", <<>>)).kind = "raise"

C10_Order ==
    /\ IsPrefix(steps[1], AllSteps)
    /\ (pc[1] = "done" /\ steps[1] # <<>> /\ file.state # "ok") =>
          /\ steps[1] = <<"read">>
          /\ ret[1].kind = "raise"
          /\ ret[1].exc.exc = (IF file.state = "missing" THEN "FileNotFoundError"
                               ELSE "TOMLDecodeError")
    /\ (CheckedVersion /\ pydust_version # "0.1.0" /\ HasRequires(pyproject[1])
          /\ SomeEntryOffPin(pyproject[1]) /\ ConstructionWouldFail(pyproject[1]))
          => FailedOnPin
    /\ (pc[1] = "done" /\ ret[1].kind = "raise") => (steps[1] # AllSteps /\ cache = 0)
    /\ cache # 0 => (cache \in 1..Len(heap) /\ Validated(heap[cache]))

C10_CacheWrite ==
    (cache' # cache /\ clears' = clears) =>
        /\ cache = 0
        /\ pc[1] = "store"
        /\ steps[1] = <<"read", "version", "construct">>
        /\ ret[1].kind = "return"
        /\ cache' = ret[1].val
        /\ Validated(heap[ret[1].val])

\* C10: a first call of load() runs read, version check, construction and cache
\* write in that order and ends at the first step that fails: a missing or
\* malformed file is reported by the read alone; a pin mismatch is reported as
\* the ValueError about the pin even when the tool.pydust table would not
\* construct; the cache is written only by the step after a successful
\* construction (load.cache_clear() apart, which only empties it), so that it
\* only ever holds a fully validated ToolPydust.
C10_StepsInOrder == []C10_Order /\ [][C10_CacheWrite]_vars

\* a manifest with both a stale pin and self_managed=True with a module: the pin
\* is what is reported
C10_Witness ==
    /\ CheckedVersion
    /\ HasRequires(pyproject[1])
    /\ SomeEntryOffPin(pyproject[1])
    /\ HasPydustTable(pyproject[1])
    /\ SelfManagedOn(pyproject[1].tool.pydust)
    /\ ModulesDeclared(pyproject[1].tool.pydust)
    /\ FailedOnPin

(***************************************************************************)
(* Properties of ExtModule (SpecModule).                                   *)
(***************************************************************************)
\* a dotted name: not empty, and no component of it empty
DottedName(s) ==
    /\ s # ""
    /\ CharAt(s, 1) # "."
    /\ CharAt(s, Len(s)) # "."
    /\ \A i \in 1..(Len(s) - 1) : ~(CharAt(s, i) = "." /\ CharAt(s, i + 1) = ".")

\* s with every dot turned into the directory separator
RECURSIVE DotsToSlashes(_)
DotsToSlashes(s) ==
    IF s = "" THEN ""
    ELSE (IF CharAt(s, 1) = "." THEN "/" ELSE CharAt(s, 1))
         \o DotsToSlashes(SubSeq(s, 2, Len(s)))

Roots == {PathV("src/fastmod"), PathV("."), PathV("elsewhere")}

\* C8: install_path raises NotImplementedError exactly when limited_api is
\* False, whatever name and root are; when limited_api is True and the name is
\* a dotted name, it returns the components of the name as nested directories
\* with ".abi3.so" appended, and the same for every root.
C8_InstallPath ==
    out.op = "install_path" =>
        /\ FailsWith(out.res, "NotImplementedError") <=> ~obj.limited_api.b
        /\ ~obj.limited_api.b =>
              out.res.exc.msg = "Only limited API modules are supported right now"
        /\ (obj.limited_api.b /\ DottedName(obj.name.s)) =>
              /\ out.res = Returned(PathV(DotsToSlashes(obj.name.s) \o ".abi3.so"))
              /\ \A r \in Roots : install_path([obj EXCEPT !.root = r]) = out.res

\* the module pkg.fastmod installs to pkg/fastmod.abi3.so
C8_Witness ==
    /\ out.op = "install_path"
    /\ obj.name = Str("pkg.fastmod")
    /\ obj.limited_api = Bool(TRUE)
    /\ out.res = Returned(PathV("pkg/fastmod.abi3.so"))

\* the keyword arguments break the data model of ExtModule
BreaksDataModel(kw) ==
    \/ "name" \notin DOMAIN kw
    \/ kw.name.t # "str"
    \/ kw.name = Str("")
    \/ kw.root.t # "Path"
    \/ ("limited_api" \in DOMAIN kw /\ kw.limited_api.t # "bool")

\* C9: an ExtModule that the constructor returns has a non-empty str name, a Path
\* root and a bool limited_api, each stored as given; arguments that break one
\* of these (the empty name and a str root included) make the constructor raise
\* TypeError, and no ExtModule comes to be.
C9_ConstructValidates ==
    out.op = "ExtModule" =>
        /\ out.res.kind = "return" =>
              /\ obj = out.res.val
              /\ obj.name = inp.kw.name /\ obj.name.t = "str" /\ obj.name.s # ""
              /\ obj.root = inp.kw.root /\ obj.root.t = "Path"
              /\ obj.limited_api = Arg(inp.kw, "limited_api", Bool(TRUE))
              /\ obj.limited_api.t = "bool"
        /\ BreaksDataModel(inp.kw) =>
              (FailsWith(out.res, "TypeError") /\ obj = NoObj)

====
